---------------------------- MODULE Spec2Model ----------------------------
(***************************************************************************)
(* MinioStorage (src/src/django_minio_storage/storage.py): a Django        *)
(* storage backend over a MinIO client.                                    *)
(*                                                                         *)
(* Python strings are sequences of one-character strings, None is a value  *)
(* that is no string, and an exception leaving a method is the "raised"    *)
(* field of the call record.                                               *)
(***************************************************************************)
EXTENDS Integers, Sequences, FiniteSets

VARIABLES
    args,          \* explicit arguments of the last __init__ call
    settings,      \* django.conf.settings at that call
    bucket_name,   \* self.bucket_name
    _protocol,     \* self._protocol
    _base_url,     \* self._base_url
    minio,         \* self.minio: the client's constructor arguments, or None
    objects,       \* the bucket at the store: object name -> bytes, or Absent
    call,          \* the last method call: operation, arguments, outcome
    lastPut,       \* the arguments of the last put_object call
    resp,          \* the response of the last get_object call and its release
    saved,         \* history: name -> the content of its last successful save
    calls,         \* history: number of save/open/exists/delete calls made
    opsIssued,     \* history: number of client operations invoked
    normIn,        \* _normalize_endpoint applied on its own: the input,
    normOnce,      \*   its result,
    normTwice      \*   and the result of normalizing the result

vars == <<args, settings, bucket_name, _protocol, _base_url, minio, objects,
          call, lastPut, resp, saved, calls, opsIssued,
          normIn, normOnce, normTwice>>

adapterVars == <<args, settings, bucket_name, _protocol, _base_url, minio>>
storeVars == <<objects, lastPut, resp, saved, calls, opsIssued>>
normVars == <<normIn, normOnce, normTwice>>

----------------------------------------------------------------------------
(* Bounds *)

MaxBody == 3      \* characters of an endpoint after its optional scheme
MaxLen == 1       \* bytes of a payload
MaxCalls == 3     \* method calls in one run

----------------------------------------------------------------------------
(* Python values *)

None == <<"<None>">>
Unset == <<"<unset>">>

Truthy(v) == v # None /\ v # <<>>

\* a or b
Or(a, b) == IF Truthy(a) THEN a ELSE b

RECURSIVE SeqsUpTo(_, _)
SeqsUpTo(A, n) ==
    IF n = 0 THEN {<<>>}
    ELSE LET shorter == SeqsUpTo(A, n - 1)
         IN  shorter \cup {Append(s, c) : s \in {t \in shorter : Len(t) = n - 1}, c \in A}

StartsWith(s, p) == Len(s) >= Len(p) /\ SubSeq(s, 1, Len(p)) = p

Whitespace == {" "}

RECURSIVE LStrip(_)
LStrip(s) ==
    IF s # <<>> /\ Head(s) \in Whitespace THEN LStrip(Tail(s)) ELSE s

RECURSIVE RStripSet(_, _)
RStripSet(s, cs) ==
    IF s # <<>> /\ s[Len(s)] \in cs THEN RStripSet(SubSeq(s, 1, Len(s) - 1), cs) ELSE s

\* str.strip()
Strip(s) == RStripSet(LStrip(s), Whitespace)

\* str.rstrip("/")
RStripSlash(s) == RStripSet(s, {"/"})

RECURSIVE TakeUntil(_, _)
TakeUntil(s, stops) ==
    IF s = <<>> \/ Head(s) \in stops THEN <<>>
    ELSE <<Head(s)>> \o TakeUntil(Tail(s), stops)

HttpScheme == <<"h", "t", "t", "p", ":", "/", "/">>
HttpsScheme == <<"h", "t", "t", "p", "s", ":", "/", "/">>

\* urlparse(url).netloc of a url that starts with http:// or https://: the
\* text after the "//" up to the first "/", "?" or "#".
Netloc(url) ==
    LET rest == IF StartsWith(url, HttpsScheme)
                THEN SubSeq(url, Len(HttpsScheme) + 1, Len(url))
                ELSE SubSeq(url, Len(HttpScheme) + 1, Len(url))
    IN  TakeUntil(rest, {"/", "?", "#"})

\* lines 83-90
_normalize_endpoint(endpoint) ==
    IF ~Truthy(endpoint) THEN None
    ELSE LET e == Strip(endpoint)
         IN  IF StartsWith(e, HttpScheme) \/ StartsWith(e, HttpsScheme)
             THEN RStripSlash(Netloc(e))
             ELSE RStripSlash(e)

----------------------------------------------------------------------------
(* Inputs of __init__ *)

EndpointChars == {"a", "/", " "}

EndpointStrings ==
    {p \o b : p \in {<<>>, HttpScheme, HttpsScheme}, b \in SeqsUpTo(EndpointChars, MaxBody)}

SettingEndpoints == {None, <<"b">>}
KeyArgs == {None, <<>>, <<"k">>}
KeySettings == {None, <<"s">>}
SecureArgs == {"None", "True", "False"}
SecureSettings == {"absent", "True", "False"}

Names == {<<"x">>, <<"a", "/", "b">>}

ArgSets ==
    [bucket_name : KeyArgs, endpoint : EndpointStrings \cup {None},
     access_key : {None, <<"k">>}, secret_key : {None, <<"k">>}, secure : SecureArgs]

SettingSets ==
    [STORAGE_MINIO_ENDPOINT : SettingEndpoints,
     STORAGE_MINIO_ACCESS_KEY : KeySettings,
     STORAGE_MINIO_SECRET_KEY : KeySettings,
     STORAGE_MINIO_BUCKET_NAME : KeySettings,
     STORAGE_MINIO_SECURE : SecureSettings]

----------------------------------------------------------------------------
(* __init__ *)

\* lines 64-65: secure, or getattr(settings, "STORAGE_MINIO_SECURE", False)
ResolveSecure(a, st) ==
    IF a.secure = "None"
    THEN IF st.STORAGE_MINIO_SECURE = "absent" THEN "False" ELSE st.STORAGE_MINIO_SECURE
    ELSE a.secure

\* lines 59-67: the resolved parameters, the endpoint normalized
Resolved(a, st) ==
    [endpoint    |-> _normalize_endpoint(Or(a.endpoint, st.STORAGE_MINIO_ENDPOINT)),
     access_key  |-> Or(a.access_key, st.STORAGE_MINIO_ACCESS_KEY),
     secret_key  |-> Or(a.secret_key, st.STORAGE_MINIO_SECRET_KEY),
     bucket_name |-> Or(a.bucket_name, st.STORAGE_MINIO_BUCKET_NAME),
     secure      |-> ResolveSecure(a, st)]

\* the check of line 69 with secret_key left out of the list
AllRequiredSkipsSecret(r) ==
    Truthy(r.endpoint) /\ Truthy(r.access_key) /\ Truthy(r.bucket_name)

\* line 69: all([endpoint, access_key, secret_key, bucket_name])
AllRequired(r) ==
    Truthy(r.endpoint) /\ Truthy(r.access_key) /\ Truthy(r.secret_key)
        /\ Truthy(r.bucket_name)

\* line 73
Protocol(secure) ==
    IF secure = "True" THEN <<"h", "t", "t", "p", "s">> ELSE <<"h", "t", "t", "p">>

\* line 74
BaseUrl(protocol, endpoint) == protocol \o <<":", "/", "/">> \o endpoint

NoClient ==
    [created |-> FALSE, endpoint |-> None, access_key |-> None,
     secret_key |-> None, secure |-> "None"]

\* The instance __init__ leaves behind, and the exception it raises.
NewAdapter(a, st) ==
    LET r == Resolved(a, st)
    IN  IF ~AllRequired(r)
        THEN [raised |-> "ValueError", bucket_name |-> Unset, _protocol |-> Unset,
              _base_url |-> Unset, minio |-> NoClient]
        ELSE [raised |-> "none", bucket_name |-> r.bucket_name,
              _protocol |-> Protocol(r.secure),
              _base_url |-> BaseUrl(Protocol(r.secure), r.endpoint),
              minio |-> [created |-> TRUE, endpoint |-> r.endpoint,
                         access_key |-> r.access_key, secret_key |-> r.secret_key,
                         secure |-> r.secure]]

Constructed == minio.created

----------------------------------------------------------------------------
(* Byte streams, content objects and the store *)

Hello == <<"h", "e", "l", "l", "o">>

\* Payloads: the first bytes of "hello"
Payloads == {SubSeq(Hello, 1, n) : n \in 0..MaxLen}

Absent == None

\* A readable object: its bytes from offset 0, its position, whether seek works.
\* What a stream that cannot seek has already delivered is gone: its bytes are
\* the ones still to be read, and it stands at their start.
Streams ==
    {s \in [data : Payloads, pos : 0..MaxLen, seekable : BOOLEAN] :
        /\ s.pos <= Len(s.data)
        /\ ~s.seekable => s.pos = 0}

NoStream == [data |-> None, pos |-> 0, seekable |-> FALSE]

ContentTypes == {None, <<"t">>}
OctetStream == <<"o">>

\* The content argument of save: the attributes the code probes. The bytes are
\* reached through content.file, through content.stream, or through content
\* itself when it has neither attribute.
Content(h, s, hs, n, ct) ==
    [file   |-> IF h = "file" THEN s ELSE NoStream,
     stream |-> IF h = "stream" THEN s ELSE NoStream,
     self   |-> s,
     has_size |-> hs, size |-> IF hs THEN n ELSE 0, content_type |-> ct]

\* Every stream with every size attribute on a content that has a .file and no
\* content type, and every combination of attributes around one stream.
Contents ==
    {Content("file", s, hs, n, None) :
        s \in Streams, hs \in BOOLEAN, n \in 0..(MaxLen + 1)}
    \cup
    {Content(h, [data |-> <<"h">>, pos |-> 1, seekable |-> TRUE], hs, 1, ct) :
        h \in {"file", "stream", "self"}, hs \in BOOLEAN, ct \in ContentTypes}

\* line 93
FileObj(content) ==
    IF content.file # NoStream THEN content.file
    ELSE IF content.stream # NoStream THEN content.stream
    ELSE content.self

\* a source used from wherever it stands
SeekNotAttempted(s) == s

\* try: file_obj.seek(0) / except Exception: pass
Seek0(s) == IF s.seekable THEN [s EXCEPT !.pos = 0] ELSE s

\* file_obj.read()
Read(s) == SubSeq(s.data, s.pos + 1, Len(s.data))

\* BytesIO(data), rewound
BytesIO(data) == [data |-> data, pos |-> 0, seekable |-> TRUE]

StoreFaults == {"none", "AccessDenied", "Transport"}

\* except S3Error
IsS3Error(err) == err \in {"NoSuchKey", "AccessDenied"}

\* lines 92-107 with the size read off the rewound buffer's position
SizeFromRewoundPosition(content) ==
    IF ~content.has_size
    THEN LET buf == BytesIO(Read(Seek0(FileObj(content))))
         IN  [file_obj |-> buf, size |-> buf.pos, buffered |-> TRUE]
    ELSE [file_obj |-> FileObj(content), size |-> content.size, buffered |-> FALSE]

\* lines 92-107
_get_file_obj_and_size(content) ==
    IF ~content.has_size
    THEN LET buf == BytesIO(Read(Seek0(FileObj(content))))
         IN  [file_obj |-> buf, size |-> Len(buf.data), buffered |-> TRUE]
    ELSE [file_obj |-> FileObj(content), size |-> content.size, buffered |-> FALSE]

\* line 111
ContentType(content) ==
    IF content.content_type = None THEN OctetStream ELSE content.content_type

\* minio.put_object(bucket, name, data, length, content_type): reads length
\* bytes from data's position; a shorter source is an IOError before any request.
PutObject(objs, name, data, length, fault) ==
    IF Len(data.data) - data.pos < length
    THEN [err |-> "IOError", objects |-> objs, ops |-> 1]
    ELSE IF fault # "none"
    THEN [err |-> fault, objects |-> objs, ops |-> 1]
    ELSE [err |-> "none", ops |-> 1,
          objects |-> [objs EXCEPT ![name] =
                          SubSeq(data.data, data.pos + 1, data.pos + length)]]

\* minio.get_object(bucket, name)
GetObject(objs, name, fault) ==
    IF fault # "none" THEN [err |-> fault, data |-> None, ops |-> 1]
    ELSE IF objs[name] = Absent THEN [err |-> "NoSuchKey", data |-> None, ops |-> 1]
    ELSE [err |-> "none", data |-> objs[name], ops |-> 1]

\* a stat that is tried a second time when it fails
StatObjectRetries(objs, name, fault) ==
    IF fault # "none" THEN [err |-> fault, ops |-> 2]
    ELSE IF objs[name] = Absent THEN [err |-> "NoSuchKey", ops |-> 2]
    ELSE [err |-> "none", ops |-> 1]

\* minio.stat_object(bucket, name)
StatObject(objs, name, fault) ==
    IF fault # "none" THEN [err |-> fault, ops |-> 1]
    ELSE IF objs[name] = Absent THEN [err |-> "NoSuchKey", ops |-> 1]
    ELSE [err |-> "none", ops |-> 1]

\* minio.remove_object(bucket, name); whether removing an absent object is
\* reported as an error is the store's choice (reportAbsent).
RemoveObject(objs, name, fault, reportAbsent) ==
    IF fault # "none" THEN [err |-> fault, objects |-> objs, ops |-> 1]
    ELSE IF objs[name] = Absent /\ reportAbsent
    THEN [err |-> "NoSuchKey", objects |-> objs, ops |-> 1]
    ELSE [err |-> "none", objects |-> [objs EXCEPT ![name] = Absent], ops |-> 1]

----------------------------------------------------------------------------
(* Call records *)

NoFile == [data |-> None, pos |-> 0]
NoPut == [called |-> FALSE, length |-> 0, data |-> NoStream, content_type |-> None,
          buffered |-> FALSE, has_size |-> FALSE, size |-> 0]
NoResp == [got |-> FALSE, closeCalled |-> FALSE, releaseCalled |-> FALSE]
NoSave == [live |-> FALSE, payload |-> None, sized |-> FALSE, size |-> 0]

\* op: the method; err: what the client call raised; raised: what left the method
CallRec(op, name, err, raised, ret, bool, file) ==
    [op |-> op, name |-> name, err |-> err, raised |-> raised, ret |-> ret,
     bool |-> bool, file |-> file]

NoCall == CallRec("none", None, "none", "none", None, FALSE, NoFile)

----------------------------------------------------------------------------
(* The methods *)

\* __init__(bucket_name, endpoint, access_key, secret_key, secure)
Construct(a, st) ==
    /\ call.op = "none"
    /\ \E new \in {NewAdapter(a, st)} :
           /\ args' = a
           /\ settings' = st
           /\ bucket_name' = new.bucket_name
           /\ _protocol' = new._protocol
           /\ _base_url' = new._base_url
           /\ minio' = new.minio
           /\ call' = CallRec("__init__", None, "none", new.raised, None, FALSE, NoFile)
    /\ UNCHANGED <<storeVars, normVars>>

\* save(name, content)
Save(name, content, fault) ==
    /\ Constructed
    /\ calls < MaxCalls
    /\ \E fs \in {_get_file_obj_and_size(content)} :
       \E src \in {Seek0(fs.file_obj)} :
       \E put \in {PutObject(objects, name, src, fs.size, fault)} :
           /\ objects' = put.objects
           /\ lastPut' = [called |-> TRUE, length |-> fs.size, data |-> src,
                          content_type |-> ContentType(content),
                          buffered |-> fs.buffered,
                          has_size |-> content.has_size, size |-> content.size]
           /\ call' = CallRec("save", name, put.err, put.err,
                              IF put.err = "none" THEN name ELSE None, FALSE, NoFile)
           /\ saved' = [saved EXCEPT ![name] =
                          IF put.err = "none"
                          THEN [live |-> TRUE, payload |-> content.self.data,
                                sized |-> content.has_size, size |-> content.size]
                          ELSE @]
           /\ opsIssued' = opsIssued + put.ops
    /\ calls' = calls + 1
    /\ resp' = NoResp
    /\ UNCHANGED <<adapterVars, normVars>>

\* lines 130-137: drain the response, then close and release it in the finally
\* block; an exception of the finally block replaces the one pending.
DrainAndRelease(data, readFail, closeFail, releaseFail) ==
    LET raised == IF closeFail THEN "CloseError"
                  ELSE IF releaseFail THEN "ReleaseError"
                  ELSE IF readFail THEN "ReadError"
                  ELSE "none"
    IN  [resp |-> [got |-> TRUE, closeCalled |-> TRUE, releaseCalled |-> ~closeFail],
         raised |-> raised,
         file |-> IF raised = "none" THEN [data |-> data, pos |-> 0] ELSE NoFile]

\* open(name, mode)
Open(name, fault, readFail, closeFail, releaseFail) ==
    /\ Constructed
    /\ calls < MaxCalls
    /\ \E got \in {GetObject(objects, name, fault)} :
       \E out \in {DrainAndRelease(got.data, readFail, closeFail, releaseFail)} :
           /\ IF got.err # "none"
              THEN /\ call' = CallRec("open", name, got.err, got.err, None, FALSE, NoFile)
                   /\ resp' = NoResp
              ELSE /\ call' = CallRec("open", name, "none", out.raised, None, FALSE,
                                      out.file)
                   /\ resp' = out.resp
           /\ opsIssued' = opsIssued + got.ops
    /\ calls' = calls + 1
    /\ lastPut' = NoPut
    /\ UNCHANGED <<adapterVars, normVars, objects, saved>>

\* lines 140-144 answering True from the except branch as well
ExistsReturnsTrue(err) ==
    [raised |-> IF err = "none" \/ IsS3Error(err) THEN "none" ELSE err, bool |-> TRUE]

\* lines 140-144 catching the not-found S3Error alone
ExistsCatchesNotFoundOnly(err) ==
    [raised |-> IF err \in {"none", "NoSuchKey"} THEN "none" ELSE err,
     bool |-> (err = "none")]

\* lines 140-144
ExistsResult(err) ==
    [raised |-> IF err = "none" \/ IsS3Error(err) THEN "none" ELSE err,
     bool |-> (err = "none")]

\* exists(name)
Exists(name, fault) ==
    /\ Constructed
    /\ calls < MaxCalls
    /\ \E st \in {StatObject(objects, name, fault)} :
       \E out \in {ExistsResult(st.err)} :
           /\ call' = CallRec("exists", name, st.err, out.raised, None,
                              out.raised = "none" /\ out.bool, NoFile)
           /\ opsIssued' = opsIssued + st.ops
    /\ calls' = calls + 1
    /\ lastPut' = NoPut
    /\ resp' = NoResp
    /\ UNCHANGED <<adapterVars, normVars, objects, saved>>

\* lines 147-150 catching the not-found S3Error alone
DeleteCatchesNotFoundOnly(err) ==
    IF err \in {"none", "NoSuchKey"} THEN "none" ELSE err

\* lines 147-150: what leaves delete when remove_object raised err
DeleteRaised(err) == IF err = "none" \/ IsS3Error(err) THEN "none" ELSE err

\* delete(name)
Delete(name, fault, reportAbsent) ==
    /\ Constructed
    /\ calls < MaxCalls
    /\ \E rm \in {RemoveObject(objects, name, fault, reportAbsent)} :
           /\ objects' = rm.objects
           /\ call' = CallRec("delete", name, rm.err, DeleteRaised(rm.err), None,
                              FALSE, NoFile)
           /\ opsIssued' = opsIssued + rm.ops
    /\ saved' = [saved EXCEPT ![name] = NoSave]
    /\ calls' = calls + 1
    /\ lastPut' = NoPut
    /\ resp' = NoResp
    /\ UNCHANGED <<adapterVars, normVars>>

\* line 153 without the bucket segment
UrlOmitsBucket(name) == _base_url \o <<"/">> \o name

\* line 153
UrlOf(name) == _base_url \o <<"/">> \o bucket_name \o <<"/">> \o name

\* url(name)
Url(name) ==
    /\ Constructed
    /\ call' = CallRec("url", name, "none", "none", UrlOf(name), FALSE, NoFile)
    /\ lastPut' = NoPut
    /\ resp' = NoResp
    /\ UNCHANGED <<adapterVars, normVars, objects, saved, calls, opsIssued>>

\* _normalize_endpoint(endpoint), and again on what it returned
NormalizeOnce ==
    /\ normOnce = Unset
    /\ normOnce' = _normalize_endpoint(normIn)
    /\ UNCHANGED <<adapterVars, storeVars, call, normIn, normTwice>>

NormalizeAgain ==
    /\ normOnce # Unset
    /\ normTwice = Unset
    /\ normTwice' = _normalize_endpoint(normOnce)
    /\ UNCHANGED <<adapterVars, storeVars, call, normIn, normOnce>>

----------------------------------------------------------------------------
(* Specifications *)

NoArgs ==
    [bucket_name |-> None, endpoint |-> None, access_key |-> None,
     secret_key |-> None, secure |-> "None"]

NoSettings ==
    [STORAGE_MINIO_ENDPOINT |-> None, STORAGE_MINIO_ACCESS_KEY |-> None,
     STORAGE_MINIO_SECRET_KEY |-> None, STORAGE_MINIO_BUCKET_NAME |-> None,
     STORAGE_MINIO_SECURE |-> "absent"]

\* An adapter of the store runs: endpoint "https://a/", bucket "k", secure
StoreArgs ==
    [bucket_name |-> <<"k">>, endpoint |-> HttpsScheme \o <<"a", "/">>,
     access_key |-> <<"k">>, secret_key |-> <<"k">>, secure |-> "True"]

InitStore ==
    /\ objects = [n \in Names |-> Absent]
    /\ lastPut = NoPut
    /\ resp = NoResp
    /\ saved = [n \in Names |-> NoSave]
    /\ calls = 0
    /\ opsIssued = 0

InitNoNorm ==
    /\ normIn = None
    /\ normOnce = Unset
    /\ normTwice = Unset

\* Before __init__ has run.
InitCfg ==
    /\ args = NoArgs
    /\ settings = NoSettings
    /\ bucket_name = Unset
    /\ _protocol = Unset
    /\ _base_url = Unset
    /\ minio = NoClient
    /\ call = NoCall
    /\ InitStore
    /\ InitNoNorm

\* MinioStorage(...): one instance is constructed
NewInstance ==
    /\ call.op = "none"
    /\ \E a \in ArgSets, st \in SettingSets : Construct(a, st)

NextCfg ==
    \/ NewInstance
    \/ \E n \in Names : Url(n)

SpecCfg == InitCfg /\ [][NextCfg]_vars

\* After __init__(**StoreArgs) against an empty bucket.
Init ==
    /\ args = StoreArgs
    /\ settings = NoSettings
    /\ LET new == NewAdapter(StoreArgs, NoSettings)
       IN  /\ bucket_name = new.bucket_name
           /\ _protocol = new._protocol
           /\ _base_url = new._base_url
           /\ minio = new.minio
           /\ call = CallRec("__init__", None, "none", new.raised, None, FALSE, NoFile)
    /\ InitStore
    /\ InitNoNorm

Next ==
    \/ \E n \in Names, c \in Contents, f \in StoreFaults : Save(n, c, f)
    \/ \E n \in Names, f \in StoreFaults, rf \in BOOLEAN, cf \in BOOLEAN, lf \in BOOLEAN :
          Open(n, f, rf, cf, lf)
    \/ \E n \in Names, f \in StoreFaults : Exists(n, f)
    \/ \E n \in Names, f \in StoreFaults, ra \in BOOLEAN : Delete(n, f, ra)
    \/ \E n \in Names : Url(n)

Spec == Init /\ [][Next]_vars

\* The same adapter against a store none of whose operations fails.
NextNoFault ==
    \/ \E n \in Names, c \in Contents : Save(n, c, "none")
    \/ \E n \in Names : Open(n, "none", FALSE, FALSE, FALSE)
    \/ \E n \in Names : Exists(n, "none")
    \/ \E n \in Names, ra \in BOOLEAN : Delete(n, "none", ra)
    \/ \E n \in Names : Url(n)

SpecNoFault == Init /\ [][NextNoFault]_vars

NormInputs == EndpointStrings \cup {None}

InitNorm ==
    /\ args = NoArgs
    /\ settings = NoSettings
    /\ bucket_name = Unset
    /\ _protocol = Unset
    /\ _base_url = Unset
    /\ minio = NoClient
    /\ call = NoCall
    /\ InitStore
    /\ normIn \in NormInputs
    /\ normOnce = Unset
    /\ normTwice = Unset

NextNorm == NormalizeOnce \/ NormalizeAgain

SpecNorm == InitNorm /\ [][NextNorm]_vars

----------------------------------------------------------------------------
(* Properties *)

\* An explicit argument, or the setting when the argument is None or empty.
Given(arg, setting) == IF arg = None \/ arg = <<>> THEN setting ELSE arg

GivenEndpoint == Given(args.endpoint, settings.STORAGE_MINIO_ENDPOINT)

GivenSecure ==
    IF args.secure # "None" THEN args.secure = "True"
    ELSE settings.STORAGE_MINIO_SECURE = "True"

SomeRequiredMissing ==
    \/ ~Truthy(_normalize_endpoint(GivenEndpoint))
    \/ ~Truthy(Given(args.access_key, settings.STORAGE_MINIO_ACCESS_KEY))
    \/ ~Truthy(Given(args.secret_key, settings.STORAGE_MINIO_SECRET_KEY))
    \/ ~Truthy(Given(args.bucket_name, settings.STORAGE_MINIO_BUCKET_NAME))

\* C1 as stated: open(N) after a successful save(N, P), with no delete of N and
\* no later successful save of N in between, returns a stream at offset 0 whose
\* contents are P.
RoundTripAnyContent ==
    (call.op = "open" /\ call.raised = "none" /\ saved[call.name].live)
        => call.file = [data |-> saved[call.name].payload, pos |-> 0]

\* C1 amended: the same, for a content whose size attribute, when it has one,
\* is the number of bytes of P.
RoundTrip ==
    (/\ call.op = "open" /\ call.raised = "none"
     /\ saved[call.name].live
     /\ saved[call.name].sized => saved[call.name].size = Len(saved[call.name].payload))
        => call.file = [data |-> saved[call.name].payload, pos |-> 0]

\* open returned the non-empty payload of an earlier save
RoundTripReached ==
    /\ call.op = "open" /\ call.raised = "none"
    /\ saved[call.name].live
    /\ saved[call.name].payload = <<"h">>
    /\ call.file = [data |-> <<"h">>, pos |-> 0]

\* C2: against a store that does not fail, exists(N) is true exactly when N has
\* been saved successfully and not deleted since.
ExistsIffSaved ==
    call.op = "exists"
        => /\ call.raised = "none"
           /\ call.bool <=> saved[call.name].live

\* exists(N) is true after a save of N, the other name never saved
ExistsTrueAfterSaveReached ==
    /\ call.op = "exists" /\ call.bool
    /\ saved[call.name].live
    /\ \E n \in Names : n # call.name /\ objects[n] = Absent

DeleteNeverRaises == call.op = "delete" => call.raised = "none"

\* C4 amended: delete returns normally when remove_object succeeds or raises an
\* S3Error (not found, access denied); any other exception leaves delete.
DeleteSwallowsS3Error ==
    call.op = "delete"
        => /\ call.err \in {"none", "NoSuchKey", "AccessDenied"} => call.raised = "none"
           /\ call.err = "Transport" => call.raised = "Transport"

\* delete of an object the store reports absent returned normally
DeleteOfAbsentReached ==
    /\ call.op = "delete" /\ call.err = "NoSuchKey" /\ call.raised = "none"
    /\ objects[call.name] = Absent

\* C5 as stated: exists never raises; true when stat succeeds, false on
\* not-found and on every other failure.
ExistsNeverRaises ==
    call.op = "exists"
        => /\ call.raised = "none"
           /\ call.bool <=> (call.err = "none")

\* C5 amended: exists is true when stat_object succeeds and false when it raises
\* an S3Error (not found, access denied); any other exception leaves exists.
ExistsMapsS3ErrorToFalse ==
    call.op = "exists"
        => /\ call.err = "none" => (call.raised = "none" /\ call.bool)
           /\ call.err \in {"NoSuchKey", "AccessDenied"}
                 => (call.raised = "none" /\ ~call.bool)
           /\ call.err = "Transport" => call.raised = "Transport"

\* exists returned false on an access-denied answer about a stored object
ExistsFalseOnDeniedReached ==
    /\ call.op = "exists" /\ call.err = "AccessDenied"
    /\ call.raised = "none" /\ ~call.bool
    /\ objects[call.name] # Absent

\* The configured endpoint with its scheme prefix and trailing slashes removed.
SchemeAndSlashesRemoved(e) ==
    IF StartsWith(e, HttpsScheme) THEN RStripSlash(SubSeq(e, Len(HttpsScheme) + 1, Len(e)))
    ELSE IF StartsWith(e, HttpScheme) THEN RStripSlash(SubSeq(e, Len(HttpScheme) + 1, Len(e)))
    ELSE RStripSlash(e)

SchemeOf(secure) ==
    IF secure THEN <<"h", "t", "t", "p", "s">> ELSE <<"h", "t", "t", "p">>

\* C6 as stated: url(name) is scheme://E/bucket/name, E the configured endpoint
\* with any scheme prefix and trailing slashes removed.
UrlOfStrippedEndpoint ==
    call.op = "url"
        => call.ret = SchemeOf(GivenSecure) \o <<":", "/", "/">>
                        \o SchemeAndSlashesRemoved(GivenEndpoint) \o <<"/">>
                        \o Given(args.bucket_name, settings.STORAGE_MINIO_BUCKET_NAME)
                        \o <<"/">> \o call.name

\* C6 amended: url(name) is scheme://E/bucket/name, E the endpoint as
\* _normalize_endpoint stores it: trimmed of surrounding whitespace, cut down to
\* its network location when it starts with http:// or https://, and without
\* trailing slashes.
UrlOfNormalizedEndpoint ==
    call.op = "url"
        => call.ret = SchemeOf(GivenSecure) \o <<":", "/", "/">>
                        \o _normalize_endpoint(GivenEndpoint) \o <<"/">>
                        \o Given(args.bucket_name, settings.STORAGE_MINIO_BUCKET_NAME)
                        \o <<"/">> \o call.name

\* endpoint "https://a/", secure, bucket "k": url("a/b") = "https://a/k/a/b"
UrlScenarioReached ==
    /\ call.op = "url" /\ call.name = <<"a", "/", "b">>
    /\ GivenEndpoint = HttpsScheme \o <<"a", "/">>
    /\ GivenSecure
    /\ bucket_name = <<"k">>
    /\ call.ret = <<"h", "t", "t", "p", "s", ":", "/", "/", "a", "/", "k", "/", "a", "/", "b">>

\* C7: normalizing what _normalize_endpoint returned gives the same value
\* again, for every endpoint that normalizes to a non-empty endpoint.
NormalizeIdempotent ==
    (normTwice # Unset /\ Truthy(normOnce)) => normTwice = normOnce

\* C8: once get_object has returned a response, open has called both its
\* close() and its release_conn() by the time it returns or raises.
OpenReleasesResponse ==
    (call.op = "open" /\ resp.got) => (resp.closeCalled /\ resp.releaseCalled)

\* C9 as stated: the length passed to put_object is the number of bytes of the
\* byte source passed with it, the content being buffered when it has no size
\* attribute and its size attribute being the length when it has one.
PutLengthIsSourceLength ==
    lastPut.called
        => /\ lastPut.length = Len(lastPut.data.data)
           /\ ~lastPut.has_size => lastPut.buffered
           /\ lastPut.has_size => lastPut.length = lastPut.size

\* C9 amended: without a size attribute the content is buffered and the length
\* passed is the number of bytes of the buffer, passed from offset 0; with a
\* size attribute that value is the length passed, whatever the source holds.
PutLengthIsSizeOrBufferLength ==
    lastPut.called
        => /\ ~lastPut.has_size
                 => /\ lastPut.buffered
                    /\ lastPut.length = Len(lastPut.data.data)
                    /\ lastPut.data.pos = 0
           /\ lastPut.has_size
                 => (~lastPut.buffered /\ lastPut.length = lastPut.size)

\* a content without size attribute was buffered and written with length 1
PutOfBufferedContentReached ==
    /\ lastPut.called /\ ~lastPut.has_size /\ lastPut.buffered
    /\ lastPut.data.data = <<"h">> /\ lastPut.length = 1
    /\ objects[call.name] = <<"h">>

============================================================================
